---------------------------- MODULE Spec2Model ----------------------------
(***************************************************************************)
(* Model of src/help.py: the interactive plan/action/observe/output loop,  *)
(* the tool dispatcher handle_task, the four tool executors and the step   *)
(* extractor extract_json_objects.                                         *)
(*                                                                         *)
(* Representation.  A Python str is a sequence of chunks; a chunk is one   *)
(* character ("a", " ", "|") or one literal of the source ("write_file",   *)
(* "Tool '").  A Python value is a record [ty, s]: a str, None, or a list  *)
(* (an unhashable JSON value).  A raw text exchanged with the model is a   *)
(* sequence of tokens: braces, commas, characters and JSON members.        *)
(***************************************************************************)
EXTENDS Naturals, Integers, Sequences, FiniteSets, TLC

(***************************************************************************)
(* Bounds                                                                  *)
(***************************************************************************)
\* model round-trips (chat.send_message) of one session after the system prompt
MaxSends == 2
\* length of the tool inputs drawn for the dispatcher
MaxInputLen == 4
\* length of the raw texts drawn for the extractor
MaxTextLen == 6

(***************************************************************************)
(* Python values                                                           *)
(***************************************************************************)
Str(chunks) == [ty |-> "str", s |-> chunks]

PyNone == [ty |-> "NoneType", s |-> <<>>]

PyList == [ty |-> "list", s |-> <<"[]">>]

IsStr(v) == v.ty = "str"

\* what an f-string writes for a value: str(v)
Format(v) == IF v.ty = "NoneType" THEN <<"None">> ELSE v.s

IsSpace(c) == c \in {" ", "\t", "\n", "\r"}

RECURSIVE lstrip(_)
lstrip(s) == IF s # <<>> /\ IsSpace(Head(s)) THEN lstrip(Tail(s)) ELSE s

RECURSIVE rstrip(_)
rstrip(s) ==
    IF s # <<>> /\ IsSpace(s[Len(s)]) THEN rstrip(SubSeq(s, 1, Len(s) - 1)) ELSE s

\* str.strip()
strip(s) == rstrip(lstrip(s))

LowerOf(c) ==
    CASE c = "E" -> "e"
      [] c = "X" -> "x"
      [] c = "I" -> "i"
      [] c = "T" -> "t"
      [] OTHER -> c

\* str.lower()
lower(s) == [i \in 1..Len(s) |-> LowerOf(s[i])]

\* variant: a single "|" counts as the delimiter
DelimPositionsSingleBar(s) == {i \in 1..(Len(s) - 1) : s[i] = "|"}

\* positions where the delimiter "||" starts
DelimPositions(s) == {i \in 1..(Len(s) - 1) : s[i] = "|" /\ s[i + 1] = "|"}

Min(S) == CHOOSE x \in S : \A y \in S : x <= y

\* variant: the text is cut at the last occurrence of the delimiter
split1Last(s) ==
    IF DelimPositions(s) = {} THEN <<s>>
    ELSE LET i == CHOOSE x \in DelimPositions(s) : \A y \in DelimPositions(s) : y <= x
         IN  <<SubSeq(s, 1, i - 1), SubSeq(s, i + 2, Len(s))>>

\* str.split("||", 1): one part when the delimiter is absent, else two parts
\* cut at the first occurrence
split1(s) ==
    IF DelimPositions(s) = {} THEN <<s>>
    ELSE LET i == Min(DelimPositions(s))
         IN  <<SubSeq(s, 1, i - 1), SubSeq(s, i + 2, Len(s))>>

(***************************************************************************)
(* Raw texts and the step extractor                                        *)
(***************************************************************************)
LBrace == [t |-> "{", k |-> "", v |-> PyNone]

RBrace == [t |-> "}", k |-> "", v |-> PyNone]

Comma == [t |-> ",", k |-> "", v |-> PyNone]

\* one character of text that is not a brace, a comma or part of a member
Ch(c) == [t |-> "ch", k |-> c, v |-> PyNone]

\* the JSON member "k": v
Member(k, v) == [t |-> "member", k |-> k, v |-> v]

\* a str as raw text
Wire(s) == [i \in 1..Len(s) |-> Ch(s[i])]

IsBrace(tok) == tok.t \in {"{", "}"}

\* end of the longest run of non-brace tokens that starts at i (i - 1 when empty)
RECURSIVE RunEnd(_, _)
RunEnd(text, i) ==
    IF i <= Len(text) /\ ~IsBrace(text[i]) THEN RunEnd(text, i + 1) ELSE i - 1

\* re.findall(r'\{[^{}]+\}', text) from position i: the non-overlapping
\* matches, leftmost first
RECURSIVE findall(_, _)
findall(text, i) ==
    IF i > Len(text) THEN <<>>
    ELSE IF text[i].t = "{"
         THEN LET e == RunEnd(text, i + 1)
              IN  IF e >= i + 1 /\ e + 1 <= Len(text) /\ text[e + 1].t = "}"
                  THEN <<SubSeq(text, i, e + 1)>> \o findall(text, e + 2)
                  ELSE findall(text, i + 1)
         ELSE findall(text, i + 1)

IsWs(tok) == tok.t = "ch" /\ IsSpace(tok.k)

\* the tokens between the braces of a candidate, whitespace dropped
Body(cand) == SelectSeq(SubSeq(cand, 2, Len(cand) - 1), LAMBDA tok : ~IsWs(tok))

\* a JSON object body: empty, or member ("," member)*
WellFormed(b) ==
    \/ b = <<>>
    \/ /\ Len(b) % 2 = 1
       /\ \A i \in 1..Len(b) : IF i % 2 = 1 THEN b[i].t = "member" ELSE b[i].t = ","

\* dict.get(key) on the decoded object: the last member of that key wins,
\* None when the key is absent
Get(b, key) ==
    LET idx == {i \in 1..Len(b) : b[i].t = "member" /\ b[i].k = key}
    IN  IF idx = {} THEN PyNone
        ELSE b[CHOOSE i \in idx : \A j \in idx : j <= i].v

\* json.loads(candidate) of a well-formed candidate, seen through the four
\* keys the loop reads with .get
loads(cand) ==
    [step     |-> Get(Body(cand), "step"),
     content  |-> Get(Body(cand), "content"),
     function |-> Get(Body(cand), "function"),
     input    |-> Get(Body(cand), "input")]

Decodes(cand) == WellFormed(Body(cand))

\* json.loads raises JSONDecodeError on some candidate of the text
DecodeFails(text) ==
    LET cands == findall(text, 1)
    IN  \E i \in 1..Len(cands) : ~Decodes(cands[i])

\* variant: the try is around each json.loads, a failing candidate is skipped
extract_json_objectsSkipping(text) ==
    LET good == SelectSeq(findall(text, 1), Decodes)
    IN  [i \in 1..Len(good) |-> loads(good[i])]

\* extract_json_objects(text): the list comprehension is inside one try, so
\* one failing candidate turns the whole result into []
extract_json_objects(text) ==
    LET cands == findall(text, 1)
    IN  IF DecodeFails(text) THEN <<>>
        ELSE [i \in 1..Len(cands) |-> loads(cands[i])]

(***************************************************************************)
(* The environment of the tools.  A filesystem is a function from the      *)
(* paths of the existing files to their contents.                          *)
(***************************************************************************)
\* bodies the weather endpoint may answer with
WeatherBodies == {<<"S">>, <<" ", "S", "\n">>}

\* texts the one-shot model call of edit_file may answer with
EditResponses == {<<"n">>, <<" ", "n", " ">>}

\* outputs a shell command may produce
ShellOutputs == {<<>>, <<"o", "\n">>}

NoPrompt == [filename |-> <<>>, current_code |-> <<>>, error_message |-> <<>>]

Env(kind, body) == [kind |-> kind, body |-> body]

NoEnv == Env("none", <<>>)

\* a call that returned text
Return(text, f, p, calls, env) ==
    [raised |-> FALSE, exc |-> "", text |-> text, fs |-> f, prompt |-> p,
     calls |-> calls, env |-> env]

\* a call that raised exc
Raise(exc, f, p, calls, env) ==
    [raised |-> TRUE, exc |-> exc, text |-> <<>>, fs |-> f, prompt |-> p,
     calls |-> calls, env |-> env]

\* f with path holding content
WriteTo(f, path, content) ==
    [q \in (DOMAIN f) \cup {path} |-> IF q = path THEN content ELSE f[q]]

\* f without path
Remove(f, path) == [q \in (DOMAIN f) \ {path} |-> f[q]]

\* what a shell command may do to the files: nothing, or remove one of them
ShellEffects(f) == {f} \cup {Remove(f, q) : q \in DOMAIN f}

(***************************************************************************)
(* Tool executors: each yields the set of outcomes the environment allows  *)
(***************************************************************************)
\* get_weather(city): requests.get either raises or answers with a status
get_weather(city, f, p) ==
    LET calls == <<"get_weather", "requests.get">>
    IN  {Raise("ConnectionError", f, p, calls, Env("net_error", <<>>))}
        \cup {Return(<<"Something went wrong while fetching the weather.">>,
                     f, p, calls, Env("status_500", b)) : b \in WeatherBodies}
        \cup {Return(<<"The weather in ">> \o Format(city) \o <<" is ">>
                       \o strip(b) \o <<".">>,
                     f, p, calls, Env("status_200", b)) : b \in WeatherBodies}

\* run_command(command): os.popen rejects a command that is not a str
run_command(command, f, p) ==
    IF ~IsStr(command)
    THEN {Raise("TypeError", f, p, <<"run_command">>, NoEnv)}
    ELSE {Return(o, g, p, <<"run_command", "os.popen">>, Env("shell", <<>>)) :
            o \in ShellOutputs, g \in ShellEffects(f)}

\* write_file(filename, content), entered after the calls before: open(.., "w")
\* may fail (it always does for the empty name), the write may fail after the
\* file was truncated, or the file ends up holding content
write_file(filename, content, f, p, before, body) ==
    LET calls == before \o <<"write_file", "open:w">>
    IN  {Raise("OSError", f, p, calls, Env("open_error", body))}
        \cup (IF filename = <<>> THEN {}
              ELSE {Raise("OSError", WriteTo(f, filename, <<>>), p, calls,
                          Env("write_error", body)),
                    Return(<<"File ">> \o filename \o <<" updated successfully.">>,
                           WriteTo(f, filename, content), p, calls,
                           Env("write_ok", body))})

\* f.read() of a file opened with open(filename, "r"): text mode reads with
\* universal newlines, so "\r\n" and a lone "\r" both arrive as "\n"
RECURSIVE ReadText(_)
ReadText(stored) ==
    IF stored = <<>> THEN <<>>
    ELSE IF Head(stored) = "\r"
         THEN <<"\n">> \o ReadText(IF Len(stored) >= 2 /\ stored[2] = "\n"
                                    THEN SubSeq(stored, 3, Len(stored))
                                    ELSE Tail(stored))
         ELSE <<Head(stored)>> \o ReadText(Tail(stored))

\* the text read by edit_file: "" when the file does not exist
CurrentCode(filename, f) ==
    IF filename \in DOMAIN f THEN ReadText(f[filename]) ELSE <<>>

\* variant: the file is opened for writing before the model is called, so a
\* failure of the model call leaves it created or truncated
edit_file_with_geminiTruncatesFirst(filename, error_message, f, p) ==
    LET calls == <<"edit_file_with_gemini", "open:r">>
        q     == [filename |-> filename, current_code |-> CurrentCode(filename, f),
                  error_message |-> error_message]
        gen   == calls \o <<"generate_content">>
    IN  (IF filename \in DOMAIN f
         THEN {Raise("OSError", f, p, calls, Env("read_error", <<>>))} ELSE {})
        \cup {Raise("ModelError", WriteTo(f, filename, <<>>), q, gen,
                    Env("model_error", <<>>))}
        \cup UNION {
               {IF w.raised THEN w
                ELSE [w EXCEPT !.text = <<"File ">> \o filename \o
                        <<" has been updated based on the error message.">>] :
                  w \in write_file(filename, strip(r), f, q, gen, r)} :
               r \in EditResponses}

\* edit_file_with_gemini(filename, error_message)
edit_file_with_gemini(filename, error_message, f, p) ==
    LET calls == <<"edit_file_with_gemini", "open:r">>
        q     == [filename |-> filename, current_code |-> CurrentCode(filename, f),
                  error_message |-> error_message]
        gen   == calls \o <<"generate_content">>
    IN  (IF filename \in DOMAIN f
         THEN {Raise("OSError", f, p, calls, Env("read_error", <<>>))} ELSE {})
        \cup {Raise("ModelError", f, q, gen, Env("model_error", <<>>))}
        \cup UNION {
               {IF w.raised THEN w
                ELSE [w EXCEPT !.text = <<"File ">> \o filename \o
                        <<" has been updated based on the error message.">>] :
                  w \in write_file(filename, strip(r), f, q, gen, r)} :
               r \in EditResponses}

(***************************************************************************)
(* The tool registry and the dispatcher                                    *)
(***************************************************************************)
available_tools == {<<"get_weather">>, <<"run_command">>, <<"write_file">>, <<"edit_file">>}

TwoPartTools == {<<"write_file">>, <<"edit_file">>}

InvalidFormat(tool_name) ==
    <<"Invalid input format for ">> \o Format(tool_name) \o
    <<". Expected 'filename||content/error message'.">>

NotAvailable(tool_name) == <<"Tool '">> \o Format(tool_name) \o <<"' not available.">>

\* tool_fn(tool_input) for the two single-argument tools
CallOneArg(tool_name, tool_input, f, p) ==
    IF tool_name.s = <<"get_weather">> THEN get_weather(tool_input, f, p)
    ELSE run_command(tool_input, f, p)

\* tool_fn(filename.strip(), param.strip()) for the two two-part tools
CallTwoPart(tool_name, filename, param, f, p) ==
    IF tool_name.s = <<"write_file">>
    THEN write_file(strip(filename), strip(param), f, p, <<>>, <<>>)
    ELSE edit_file_with_gemini(strip(filename), strip(param), f, p)

\* variant: the registry is indexed without the membership test of line 86
handle_taskKeyError(tool_name, tool_input, f, p) ==
    IF tool_name.ty = "list"
    THEN {Raise("TypeError", f, p, <<>>, NoEnv)}
    ELSE IF IsStr(tool_name) /\ tool_name.s \in available_tools
    THEN IF tool_name.s \in TwoPartTools
         THEN IF ~IsStr(tool_input)
              THEN {Raise("AttributeError", f, p, <<>>, NoEnv)}
              ELSE LET parts == split1(tool_input.s)
                   IN  IF Len(parts) = 1
                       THEN {Return(InvalidFormat(tool_name), f, p, <<>>, NoEnv)}
                       ELSE CallTwoPart(tool_name, parts[1], parts[2], f, p)
         ELSE CallOneArg(tool_name, tool_input, f, p)
    ELSE {Raise("KeyError", f, p, <<>>, NoEnv)}

\* handle_task(tool_name, tool_input): the set of its outcomes
handle_task(tool_name, tool_input, f, p) ==
    IF tool_name.ty = "list"
    THEN {Raise("TypeError", f, p, <<>>, NoEnv)}
    ELSE IF IsStr(tool_name) /\ tool_name.s \in available_tools
    THEN IF tool_name.s \in TwoPartTools
         THEN IF ~IsStr(tool_input)
              THEN {Raise("AttributeError", f, p, <<>>, NoEnv)}
              ELSE LET parts == split1(tool_input.s)
                   IN  IF Len(parts) = 1
                       THEN {Return(InvalidFormat(tool_name), f, p, <<>>, NoEnv)}
                       ELSE CallTwoPart(tool_name, parts[1], parts[2], f, p)
         ELSE CallOneArg(tool_name, tool_input, f, p)
    ELSE {Return(NotAvailable(tool_name), f, p, <<>>, NoEnv)}

(***************************************************************************)
(* Inputs of the session: what the user types and what the model replies   *)
(***************************************************************************)
plan == Str(<<"plan">>)

action == Str(<<"action">>)

observe == Str(<<"observe">>)

output == Str(<<"output">>)

\* the text {"step": kind, "content": c}
StepText(kind, c) ==
    <<LBrace, Member("step", kind), Comma, Member("content", Str(c)), RBrace>>

\* the text {"step": "action", "function": fn, "input": inp}
ActionText(fn, inp) ==
    <<LBrace, Member("step", action), Comma, Member("function", fn), Comma,
      Member("input", inp), RBrace>>

\* an action step that carries no input field
ActionNoInput(fn) ==
    <<LBrace, Member("step", action), Comma, Member("function", fn), RBrace>>

\* the lines the user may type at the prompt
Queries ==
    {<<"q">>, <<>>, <<"e", "x", " ", "i", "t">>,
     <<"e", "x", "i", "t">>, <<" ", "E", "x", "I", "T", " ">>}

\* the replies the model may give
Replies ==
    {StepText(output, <<"d">>),
     StepText(plan, <<"p">>),
     StepText(Str(<<"start">>), <<"s">>),
     <<LBrace, Ch(" "), RBrace>>,
     <<Ch("h"), Ch("i")>>,
     StepText(plan, <<"p">>) \o <<LBrace, Ch("x"), RBrace>>,
     StepText(observe, <<"v">>) \o <<Ch(" ")>> \o StepText(output, <<"d">>),
     StepText(plan, <<"p">>)
        \o ActionText(Str(<<"write_file">>), Str(<<" ", "f", " ", "|", "|", " ", "c", "\n">>)),
     ActionText(Str(<<"get_weather">>), Str(<<"P">>)) \o StepText(output, <<"d">>),
     StepText(output, <<"d">>) \o ActionText(Str(<<"run_command">>), Str(<<"l">>)),
     ActionText(Str(<<"write_file">>), Str(<<"g", "|", "|", "c">>))
        \o ActionText(Str(<<"run_command">>), Str(<<"l">>)),
     ActionText(Str(<<"z">>), Str(<<"a">>)),
     <<LBrace, Member("step", action), RBrace>>,
     ActionNoInput(Str(<<"write_file">>)),
     ActionNoInput(Str(<<"run_command">>)),
     ActionText(PyList, Str(<<"a">>)),
     ActionText(Str(<<"edit_file">>), Str(<<"f", "c">>)),
     ActionText(Str(<<"edit_file">>), Str(<<"f", "|", "|", "e">>))}

\* what the model answered to the system prompt
SystemReplies == {<<Ch("o"), Ch("k")>>}

system_prompt == <<Ch("system_prompt")>>

NoFiles == [q \in {} |-> <<>>]

\* the files present when the session starts
InitialFiles == {NoFiles, [q \in {<<"f">>} |-> <<"o">>]}

\* one turn of chat.history
Turn(role, kind, text) == [role |-> role, kind |-> kind, text |-> text]

\* chat.send_message(text): the request fails, or the two turns are appended
\* and the reply is returned
send_message(hist, kind, text) ==
    {[ok |-> FALSE, history |-> hist, reply |-> <<>>]}
    \cup {[ok |-> TRUE,
           history |-> hist \o <<Turn("user", kind, text), Turn("model", "reply", r)>>,
           reply |-> r] : r \in Replies}

\* variant: the observation names the tool but leaves its output out
ObserveMsgNoOutput(name, out) ==
    <<LBrace, Member("step", observe), Comma,
      Member("content", Str(<<"Tool '">> \o Format(name) \o <<"' returned: ">>)),
      RBrace>>

\* json.dumps(observe_msg) for the message built at lines 173-176
ObserveMsg(name, out) ==
    <<LBrace, Member("step", observe), Comma,
      Member("content", Str(<<"Tool '">> \o Format(name) \o <<"' returned: ">> \o out)),
      RBrace>>

\* one printed line
Line(tag, val, text) == [tag |-> tag, val |-> val, text |-> text]

(***************************************************************************)
(* State                                                                   *)
(***************************************************************************)
VARIABLES
    pc,           \* position of the main loop
    history,      \* chat.history
    response,     \* response.text
    steps,        \* the extracted batch
    idx,          \* position of the for loop in steps
    tool_name,    \* locals of the action branch
    tool_input,
    tool_output,
    fs,           \* the files
    prompt,       \* the last prompt of the one-shot model call
    result,       \* outcome of the last handle_task call
    printed,      \* lines printed by the last step
    round_trips,  \* chat.send_message calls made for the current query
    invocations,  \* handle_task calls made for the current query
    since_send,   \* handle_task calls since the last chat.send_message
    user_query,   \* the last line read at the prompt
    extracted     \* the current response went through extract_json_objects

vars == <<pc, history, response, steps, idx, tool_name, tool_input, tool_output,
          fs, prompt, result, printed, round_trips, invocations, since_send,
          user_query, extracted>>

\* round-trips of the session after the system prompt
Sends == (Len(history) \div 2) - 1

NoResult == Return(<<>>, NoFiles, NoPrompt, <<>>, NoEnv)

Init ==
    /\ pc = "prompt"
    /\ \E r \in SystemReplies :
          history = <<Turn("user", "system", system_prompt), Turn("model", "reply", r)>>
    /\ response = <<>>
    /\ steps = <<>>
    /\ idx = 0
    /\ tool_name = PyNone
    /\ tool_input = PyNone
    /\ tool_output = <<>>
    /\ fs \in InitialFiles
    /\ prompt = NoPrompt
    /\ result = NoResult
    /\ printed = <<Line("welcome", PyNone, <<>>)>>
    /\ round_trips = 0
    /\ invocations = 0
    /\ since_send = 0
    /\ user_query = <<>>
    /\ extracted = TRUE

(***************************************************************************)
(* The main interactive loop (lines 136-194)                               *)
(***************************************************************************)
\* variant: the test of line 139 without lower()
IsExitCaseSensitive(line) == strip(line) = <<"e", "x", "i", "t">>

\* the test of line 139
IsExit(line) == strip(lower(line)) = <<"e", "x", "i", "t">>

\* lines 138-140 and 194: the user types exit, the loop is left
ReadExit ==
    /\ pc = "prompt"
    /\ \E line \in Queries : IsExit(line) /\ user_query' = line
    /\ pc' = "ended"
    /\ printed' = <<Line("session_ended", PyNone, <<>>)>>
    /\ UNCHANGED <<history, response, steps, idx, tool_name, tool_input, tool_output,
                   fs, prompt, result, round_trips, invocations, since_send, extracted>>

\* line 138: input() raises EOFError when standard input is closed
ReadEOF ==
    /\ pc = "prompt"
    /\ pc' = "crashed"
    /\ printed' = <<Line("traceback", Str(<<"EOFError">>), <<>>)>>
    /\ UNCHANGED <<user_query, history, response, steps, idx, tool_name, tool_input, tool_output,
                   fs, prompt, result, round_trips, invocations, since_send, extracted>>

\* lines 138-143: any other line is sent to the model
SendQuery ==
    /\ pc = "prompt"
    /\ Sends < MaxSends
    /\ \E line \in Queries :
         /\ ~IsExit(line)
         /\ user_query' = line
         /\ \E m \in send_message(history, "query", Wire(line)) :
              \/ /\ m.ok
                 /\ pc' = "extract"
                 /\ history' = m.history
                 /\ response' = m.reply
                 /\ printed' = <<>>
                 /\ round_trips' = 1
                 /\ invocations' = 0
                 /\ since_send' = 0
                 /\ extracted' = FALSE
              \/ /\ ~m.ok
                 /\ pc' = "crashed"
                 /\ printed' = <<Line("traceback", Str(<<"ModelError">>), <<>>)>>
                 /\ UNCHANGED <<history, response, round_trips, invocations,
                                since_send, extracted>>
    /\ UNCHANGED <<steps, idx, tool_name, tool_input, tool_output, fs, prompt, result>>

\* what extract_json_objects prints (line 129)
ExtractPrints(text) ==
    IF DecodeFails(text) THEN <<Line("json_parsing_failed", PyNone, <<>>)>> ELSE <<>>

\* variant: an empty batch does not leave the inner loop, the reply is
\* extracted again
ExtractRetry ==
    /\ pc = "extract"
    /\ steps' = extract_json_objects(response)
    /\ extracted' = TRUE
    /\ IF steps' = <<>>
       THEN /\ printed' = ExtractPrints(response)
                            \o <<Line("no_valid_json", PyNone, <<>>),
                                 Line("raw", PyNone, response)>>
            /\ pc' = "check"
            /\ idx' = 0
       ELSE /\ printed' = ExtractPrints(response)
            /\ pc' = "for"
            /\ idx' = 1
    /\ UNCHANGED <<user_query, history, response, tool_name, tool_input, tool_output, fs, prompt,
                   result, round_trips, invocations, since_send>>

\* lines 147-151: extract the batch; an empty batch abandons the turn
Extract ==
    /\ pc = "extract"
    /\ steps' = extract_json_objects(response)
    /\ extracted' = TRUE
    /\ IF steps' = <<>>
       THEN /\ printed' = ExtractPrints(response)
                            \o <<Line("no_valid_json", PyNone, <<>>),
                                 Line("raw", PyNone, response)>>
            /\ pc' = "prompt"
            /\ idx' = 0
       ELSE /\ printed' = ExtractPrints(response)
            /\ pc' = "for"
            /\ idx' = 1
    /\ UNCHANGED <<user_query, history, response, tool_name, tool_input, tool_output, fs, prompt,
                   result, round_trips, invocations, since_send>>

step_type == steps[idx].step

\* the for loop moves on: the next step of the batch, or line 191 after the last
Continue ==
    IF idx < Len(steps) THEN pc' = "for" /\ idx' = idx + 1
    ELSE pc' = "check" /\ idx' = idx

\* lines 157-160
StepPlan ==
    /\ pc = "for"
    /\ step_type = plan
    /\ printed' = <<Line("step", step_type, <<>>), Line("plan", steps[idx].content, <<>>)>>
    /\ Continue
    /\ UNCHANGED <<user_query, history, response, steps, tool_name, tool_input, tool_output, fs,
                   prompt, result, round_trips, invocations, since_send, extracted>>

\* variant: an observe step leaves the for loop
StepObserveBreaks ==
    /\ pc = "for"
    /\ step_type = observe
    /\ printed' = <<Line("step", step_type, <<>>),
                    Line("observation", steps[idx].content, <<>>)>>
    /\ pc' = "check"
    /\ UNCHANGED <<user_query, history, response, steps, idx, tool_name, tool_input,
                   tool_output, fs, prompt, result, round_trips, invocations, since_send,
                   extracted>>

\* lines 180-183
StepObserve ==
    /\ pc = "for"
    /\ step_type = observe
    /\ printed' = <<Line("step", step_type, <<>>),
                    Line("observation", steps[idx].content, <<>>)>>
    /\ Continue
    /\ UNCHANGED <<user_query, history, response, steps, tool_name, tool_input, tool_output, fs,
                   prompt, result, round_trips, invocations, since_send, extracted>>

\* a step whose type is none of the four: no branch is taken
StepOther ==
    /\ pc = "for"
    /\ step_type \notin {plan, action, observe, output}
    /\ printed' = <<Line("step", step_type, <<>>)>>
    /\ Continue
    /\ UNCHANGED <<user_query, history, response, steps, tool_name, tool_input, tool_output, fs,
                   prompt, result, round_trips, invocations, since_send, extracted>>

\* variant: after an output step the for loop goes on with the next step
StepOutputContinue ==
    /\ pc = "for"
    /\ step_type = output
    /\ printed' = <<Line("step", step_type, <<>>), Line("final", steps[idx].content, <<>>)>>
    /\ Continue
    /\ UNCHANGED <<user_query, history, response, steps, tool_name, tool_input, tool_output,
                   fs, prompt, result, round_trips, invocations, since_send, extracted>>

\* lines 185-188: the output step leaves the for loop
StepOutput ==
    /\ pc = "for"
    /\ step_type = output
    /\ printed' = <<Line("step", step_type, <<>>), Line("final", steps[idx].content, <<>>)>>
    /\ pc' = "check"
    /\ UNCHANGED <<user_query, history, response, steps, idx, tool_name, tool_input, tool_output,
                   fs, prompt, result, round_trips, invocations, since_send, extracted>>

\* variant: the tool is dispatched and the for loop goes on with the next step,
\* no observation is sent
StepActionNoBreak ==
    /\ pc = "for"
    /\ step_type = action
    /\ tool_name' = steps[idx].function
    /\ tool_input' = steps[idx].input
    /\ invocations' = invocations + 1
    /\ since_send' = since_send + 1
    /\ \E o \in handle_task(steps[idx].function, steps[idx].input, fs, prompt) :
         /\ result' = o
         /\ fs' = o.fs
         /\ prompt' = o.prompt
         /\ \/ /\ ~o.raised
               /\ Continue
               /\ tool_output' = o.text
               /\ printed' = <<Line("step", step_type, <<>>),
                               Line("action", steps[idx].function, <<>>),
                               Line("tool_output", Str(o.text), <<>>)>>
            \/ /\ o.raised
               /\ pc' = "crashed"
               /\ idx' = idx
               /\ tool_output' = tool_output
               /\ printed' = <<Line("step", step_type, <<>>),
                               Line("action", steps[idx].function, <<>>),
                               Line("traceback", Str(<<o.exc>>), <<>>)>>
    /\ UNCHANGED <<user_query, history, response, steps, round_trips, extracted>>

\* variant: the one-shot call of edit_file goes through the chat, its prompt
\* and its response become turns of the conversation
StepActionEditInChat ==
    /\ pc = "for"
    /\ step_type = action
    /\ tool_name' = steps[idx].function
    /\ tool_input' = steps[idx].input
    /\ invocations' = invocations + 1
    /\ since_send' = since_send + 1
    /\ \E o \in handle_task(steps[idx].function, steps[idx].input, fs, prompt) :
         /\ result' = o
         /\ fs' = o.fs
         /\ prompt' = o.prompt
         /\ history' =
              IF o.env.kind \in {"open_error", "write_error", "write_ok"}
                 /\ o.calls[1] = "edit_file_with_gemini"
              THEN history \o <<Turn("user", "prompt", Wire(o.prompt.error_message)),
                                Turn("model", "reply", Wire(o.env.body))>>
              ELSE history
         /\ \/ /\ ~o.raised
               /\ pc' = "observe"
               /\ tool_output' = o.text
               /\ printed' = <<Line("step", step_type, <<>>),
                               Line("action", steps[idx].function, <<>>),
                               Line("tool_output", Str(o.text), <<>>)>>
            \/ /\ o.raised
               /\ pc' = "crashed"
               /\ tool_output' = tool_output
               /\ printed' = <<Line("step", step_type, <<>>),
                               Line("action", steps[idx].function, <<>>),
                               Line("traceback", Str(<<o.exc>>), <<>>)>>
    /\ UNCHANGED <<user_query, response, steps, idx, round_trips, extracted>>

\* lines 162-170: the tool is dispatched; an exception it raises is not caught
StepAction ==
    /\ pc = "for"
    /\ step_type = action
    /\ tool_name' = steps[idx].function
    /\ tool_input' = steps[idx].input
    /\ invocations' = invocations + 1
    /\ since_send' = since_send + 1
    /\ \E o \in handle_task(steps[idx].function, steps[idx].input, fs, prompt) :
         /\ result' = o
         /\ fs' = o.fs
         /\ prompt' = o.prompt
         /\ \/ /\ ~o.raised
               /\ pc' = "observe"
               /\ tool_output' = o.text
               /\ printed' = <<Line("step", step_type, <<>>),
                               Line("action", steps[idx].function, <<>>),
                               Line("tool_output", Str(o.text), <<>>)>>
            \/ /\ o.raised
               /\ pc' = "crashed"
               /\ tool_output' = tool_output
               /\ printed' = <<Line("step", step_type, <<>>),
                               Line("action", steps[idx].function, <<>>),
                               Line("traceback", Str(<<o.exc>>), <<>>)>>
    /\ UNCHANGED <<user_query, history, response, steps, idx, round_trips, extracted>>

\* lines 173-178: the observation is sent and the for loop is left
SendObservation ==
    /\ pc = "observe"
    /\ Sends < MaxSends
    /\ \E m \in send_message(history, "observation", ObserveMsg(tool_name, tool_output)) :
         \/ /\ m.ok
            /\ pc' = "check"
            /\ history' = m.history
            /\ response' = m.reply
            /\ printed' = <<>>
            /\ round_trips' = round_trips + 1
            /\ since_send' = 0
            /\ extracted' = FALSE
         \/ /\ ~m.ok
            /\ pc' = "crashed"
            /\ printed' = <<Line("traceback", Str(<<"ModelError">>), <<>>)>>
            /\ UNCHANGED <<history, response, round_trips, since_send, extracted>>
    /\ UNCHANGED <<user_query, steps, idx, tool_name, tool_input, tool_output, fs, prompt, result,
                   invocations>>

\* the test of line 191 on the batch that was iterated
AnyOutput == \E i \in 1..Len(steps) : steps[i].step = output

\* variant: a batch without an output step makes the loop ask the model again
CheckAsksAgain ==
    /\ pc = "check"
    /\ IF AnyOutput
       THEN /\ pc' = "prompt"
            /\ UNCHANGED <<history, response, round_trips, since_send, extracted>>
       ELSE /\ Sends < MaxSends
            /\ \E m \in send_message(history, "query", <<>>) :
                 /\ m.ok
                 /\ pc' = "extract"
                 /\ history' = m.history
                 /\ response' = m.reply
                 /\ round_trips' = round_trips + 1
                 /\ since_send' = 0
                 /\ extracted' = FALSE
    /\ printed' = <<>>
    /\ UNCHANGED <<user_query, steps, idx, tool_name, tool_input, tool_output, fs, prompt, result,
                   invocations>>

\* lines 190-192: leave the inner loop or extract again
Check ==
    /\ pc = "check"
    /\ pc' = IF AnyOutput THEN "prompt" ELSE "extract"
    /\ printed' = <<>>
    /\ UNCHANGED <<user_query, history, response, steps, idx, tool_name, tool_input, tool_output,
                   fs, prompt, result, round_trips, invocations, since_send, extracted>>

Next ==
    \/ ReadExit
    \/ ReadEOF
    \/ SendQuery
    \/ Extract
    \/ StepPlan
    \/ StepObserve
    \/ StepOther
    \/ StepOutput
    \/ StepAction
    \/ SendObservation
    \/ Check

Spec == Init /\ [][Next]_vars

(***************************************************************************)
(* Specification of the dispatcher: the loop stands at an action step      *)
(* whose function and input are drawn from bounded sets, dispatches it     *)
(* and sends the observation.                                              *)
(***************************************************************************)
\* every str of at most n chunks over the alphabet
StrsUpTo(alphabet, n) == UNION {[1..k -> alphabet] : k \in 0..n}

ToolNames ==
    {Str(n) : n \in available_tools}
    \cup {Str(<<"z">>), Str(<<>>), Str(<<"write_file", " ">>), PyNone, PyList}

\* every input of at most MaxInputLen chunks, an input whose content has a
\* carriage return inside, no input at all and an input that is a list
ToolInputs ==
    {Str(x) : x \in StrsUpTo({"|", " ", "f"}, MaxInputLen)}
    \cup {Str(<<"f", "|", "|", "f", "\r", "f">>), PyNone, PyList}

InitDispatch ==
    /\ user_query = <<"q">>
    /\ pc = "for"
    /\ \E fn \in ToolNames, inp \in ToolInputs :
         /\ response = ActionText(fn, inp)
         /\ steps = extract_json_objects(response)
    /\ idx = 1
    /\ \E r \in SystemReplies :
          history = <<Turn("user", "system", system_prompt), Turn("model", "reply", r),
                      Turn("user", "query", Wire(user_query)),
                      Turn("model", "reply", response)>>
    /\ tool_name = PyNone
    /\ tool_input = PyNone
    /\ tool_output = <<>>
    /\ fs \in InitialFiles
    /\ prompt = NoPrompt
    /\ result = NoResult
    /\ printed = <<>>
    /\ round_trips = 1
    /\ invocations = 0
    /\ since_send = 0
    /\ extracted = TRUE

NextDispatch ==
    \/ StepAction
    \/ SendObservation

SpecDispatch == InitDispatch /\ [][NextDispatch]_vars

(***************************************************************************)
(* Specification of the extractor: the reply to a query is any text of     *)
(* bounded length and the loop extracts its steps.                         *)
(***************************************************************************)
TextAlphabet ==
    {LBrace, RBrace, Comma, Ch(" "), Member("step", plan), Member("step", output)}

Texts == StrsUpTo(TextAlphabet, MaxTextLen)

InitExtract ==
    /\ user_query = <<"q">>
    /\ pc = "extract"
    /\ response \in Texts
    /\ \E r \in SystemReplies :
          history = <<Turn("user", "system", system_prompt), Turn("model", "reply", r),
                      Turn("user", "query", Wire(user_query)),
                      Turn("model", "reply", response)>>
    /\ steps = <<>>
    /\ idx = 0
    /\ tool_name = PyNone
    /\ tool_input = PyNone
    /\ tool_output = <<>>
    /\ fs = NoFiles
    /\ prompt = NoPrompt
    /\ result = NoResult
    /\ printed = <<>>
    /\ round_trips = 1
    /\ invocations = 0
    /\ since_send = 0
    /\ extracted = FALSE

NextExtract == Extract

SpecExtract == InitExtract /\ [][NextExtract]_vars

(***************************************************************************)
(* Properties                                                              *)
(***************************************************************************)
\* the turn a step appends for the user side (meaningful when history grows)
SentTurn == history'[Len(history) + 1]

Grows == Len(history') > Len(history)

IsActionStep(st) == st.step = action

\* the steps of the batch that are action steps
ActionIndexes == {i \in 1..Len(steps) : IsActionStep(steps[i])}

\* the observation text expected for a tool name and a result text
ExpectedObservation(name, text) ==
    <<LBrace, Member("step", Str(<<"observe">>)), Comma,
      Member("content",
             Str(<<"Tool '">> \o (IF name = PyNone THEN <<"None">> ELSE name.s)
                 \o <<"' returned: ">> \o text)),
      RBrace>>

\* C1: at most one tool invocation per model round-trip: between two calls of
\* handle_task there is always a chat.send_message, so the number of calls of
\* handle_task since the last round-trip never exceeds one.
C1_OneToolPerRoundTrip == since_send <= 1

\* C1 witness: the first action of a batch holding several action steps was
\* serviced and its observation answered, the second was not run.
C1_Witness ==
    /\ pc = "check"
    /\ Cardinality(ActionIndexes) >= 2
    /\ invocations = 1
    /\ round_trips = 2
    /\ since_send = 0

C3_InvocationsAreRoundTripsMinusOne ==
    (pc = "prompt" /\ round_trips > 0) => invocations = round_trips - 1

\* C3 witness: a cycle that serviced an action has come back to the prompt.
C3_Witness == pc = "prompt" /\ round_trips = 2 /\ invocations = 1

\* C4: when extraction yields no step, the raw reply is printed and the loop
\* is back at the prompt, with no model round-trip, no tool invocation and no
\* change to the conversation or the files.
C4_EmptyBatchAbandonsTurn ==
    [][(pc = "extract" /\ pc' # pc /\ steps' = <<>>) =>
          /\ pc' = "prompt"
          /\ \E i \in 1..Len(printed') :
                printed'[i].tag = "raw" /\ printed'[i].text = response
          /\ history' = history
          /\ round_trips' = round_trips
          /\ invocations' = invocations
          /\ fs' = fs
          /\ prompt' = prompt]_vars

\* C4 witness: a query whose reply held no step is back at the prompt.
C4_Witness ==
    /\ pc = "prompt"
    /\ round_trips = 1
    /\ invocations = 0
    /\ steps = <<>>
    /\ extracted
    /\ \E i \in 1..Len(printed) : printed[i].tag = "raw" /\ printed[i].text = response

\* C5 as claimed: every reply received during a query is extracted: when the
\* cycle is back at the prompt, the last reply went through the extractor.
C5_AsClaimed == (pc = "prompt" /\ round_trips > 0) => extracted

\* the decoded well-formed candidates of a text, in order of appearance
DecodedCandidates(text) ==
    LET good == SelectSeq(findall(text, 1), Decodes)
    IN  [i \in 1..Len(good) |-> loads(good[i])]

Unregistered(name) ==
    /\ name.ty \in {"str", "NoneType"}
    /\ ~(name.ty = "str" /\
         name.s \in {<<"get_weather">>, <<"run_command">>, <<"write_file">>,
                     <<"edit_file">>})

\* C7: dispatching an unregistered tool name returns "Tool '<name>' not
\* available.", raises nothing and enters no executor: no file, prompt or
\* conversation change and no external call.
C7_UnregisteredToolDiagnostic ==
    [][(pc = "for" /\ pc' # pc /\ IsActionStep(steps[idx])
          /\ Unregistered(steps[idx].function)) =>
          /\ pc' = "observe"
          /\ ~result'.raised
          /\ tool_output' =
               <<"Tool '">>
               \o (IF steps[idx].function = PyNone THEN <<"None">>
                   ELSE steps[idx].function.s)
               \o <<"' not available.">>
          /\ result'.calls = <<>>
          /\ fs' = fs
          /\ prompt' = prompt
          /\ history' = history]_vars

\* C7 witness: an action step without a function was dispatched.
C7_Witness ==
    /\ pc = "observe"
    /\ tool_name = PyNone
    /\ invocations = 1
    /\ tool_output = <<"Tool '", "None", "' not available.">>

HasDelimiter(x) == \E i \in 1..(Len(x) - 1) : x[i] = "|" /\ x[i + 1] = "|"

FormatDiagnostic(name) ==
    <<"Invalid input format for ", name, ". Expected 'filename||content/error message'.">>

\* C8: write_file or edit_file with an input text that has no || returns the
\* format diagnostic, changes no file and makes no model call; the diagnostic
\* is then the content of the observation sent to the model.
C8_MissingDelimiterDiagnostic ==
    /\ [][(pc = "for" /\ pc' # pc /\ IsActionStep(steps[idx])
             /\ steps[idx].function \in {Str(<<"write_file">>), Str(<<"edit_file">>)}
             /\ steps[idx].input.ty = "str"
             /\ ~HasDelimiter(steps[idx].input.s)) =>
             /\ pc' = "observe"
             /\ tool_output' = FormatDiagnostic(steps[idx].function.s[1])
             /\ result'.calls = <<>>
             /\ fs' = fs
             /\ prompt' = prompt]_vars
    /\ [][(pc = "observe" /\ Grows /\ tool_input.ty = "str"
             /\ tool_name \in {Str(<<"write_file">>), Str(<<"edit_file">>)}
             /\ ~HasDelimiter(tool_input.s)) =>
             SentTurn.text =
                ExpectedObservation(tool_name, FormatDiagnostic(tool_name.s[1]))]_vars

\* C8 witness: the format diagnostic of edit_file was sent as an observation.
C8_Witness ==
    /\ pc = "check"
    /\ tool_name = Str(<<"edit_file">>)
    /\ tool_input.ty = "str"
    /\ ~HasDelimiter(tool_input.s)
    /\ history[Len(history) - 1].kind = "observation"
    /\ history[Len(history) - 1].text =
          ExpectedObservation(tool_name, FormatDiagnostic("edit_file"))

\* C9 as claimed: handle_task never raises, whatever the tool name, the
\* input and the outcome of the tool.
C9_AsClaimed == ~result.raised

\* C10 as claimed: get_weather returns the fixed failure text on a non-200
\* status and on a network error, and the formatted weather on status 200.
C10_AsClaimed ==
    (result.calls = <<"get_weather", "requests.get">>) =>
       /\ ~result.raised
       /\ result.env.kind \in {"net_error", "status_500"} =>
             result.text = <<"Something went wrong while fetching the weather.">>
       /\ result.env.kind = "status_200" =>
             result.text = <<"The weather in ">>
                             \o (IF tool_input = PyNone THEN <<"None">> ELSE tool_input.s)
                             \o <<" is ">> \o strip(result.env.body) \o <<".">>

\* C11 as claimed: the prompt loop is left in two ways only: the user typed
\* exit, or a file or model-call failure was raised inside the write_file or
\* edit_file executor; no other error ends the session.
C11_AsClaimed ==
    pc = "crashed" =>
       /\ result.raised
       /\ result.env.kind \in {"open_error", "write_error", "read_error", "model_error"}

\* the elements of a sequence
Range(q) == {q[i] : i \in 1..Len(q)}

\* C12: the conversation is append-only and written by the loop alone: every
\* step leaves chat.history unchanged or extends it at the end, and the step
\* that runs a tool executor leaves it unchanged, the one-shot model call of
\* edit_file included.
C12_ConversationAppendOnly ==
    [][/\ Len(history') >= Len(history)
       /\ SubSeq(history', 1, Len(history)) = history
       /\ pc = "for" => history' = history
       /\ Grows => pc \in {"prompt", "observe"}]_vars

\* C12 witness: edit_file made its one-shot model call and wrote the file, the
\* conversation still holds the system prompt, the query and their replies.
C12_Witness ==
    /\ pc = "observe"
    /\ tool_name = Str(<<"edit_file">>)
    /\ "generate_content" \in Range(result.calls)
    /\ result.env.kind = "write_ok"
    /\ prompt # NoPrompt
    /\ Len(history) = 4
    /\ history[3].kind = "query"

\* the line is exit in any letter case, with whitespace around it only
ExitLine(line) ==
    \E a \in 0..Len(line) :
       /\ Len(line) >= a + 4
       /\ \A i \in 1..a : line[i] \in {" ", "\t", "\n", "\r"}
       /\ \A i \in (a + 5)..Len(line) : line[i] \in {" ", "\t", "\n", "\r"}
       /\ line[a + 1] \in {"e", "E"}
       /\ line[a + 2] \in {"x", "X"}
       /\ line[a + 3] \in {"i", "I"}
       /\ line[a + 4] \in {"t", "T"}

\* the step read a line at the prompt (the loop was not left by end of input)
LineRead ==
    /\ pc = "prompt"
    /\ pc' # pc
    /\ ~(pc' = "crashed" /\ printed'[1].val = Str(<<"EOFError">>))

\* C13: a line read at the prompt ends the session exactly when it is exit
\* after trimming and ignoring case, and then nothing is sent to the model and
\* no tool is invoked; any other line, the empty one included, is sent to the
\* model as the next turn of the conversation.
C13_ExitOrQuery ==
    [][LineRead =>
          /\ ExitLine(user_query') <=> pc' = "ended"
          /\ pc' = "ended" =>
                /\ history' = history
                /\ invocations' = invocations
                /\ round_trips' = round_trips
                /\ fs' = fs
                /\ printed' = <<[tag |-> "session_ended", val |-> PyNone, text |-> <<>>]>>
          /\ ~ExitLine(user_query') =>
                \/ /\ pc' = "extract"
                   /\ Len(history') = Len(history) + 2
                   /\ SentTurn.role = "user"
                   /\ SentTurn.text = [i \in 1..Len(user_query') |-> Ch(user_query'[i])]
                   /\ response' = history'[Len(history')].text
                \/ /\ pc' = "crashed"
                   /\ printed'[1].val = Str(<<"ModelError">>)]_vars

\* C13 witness: the session ended on an exit line written with capitals and
\* blanks, after a query made of the empty line had been sent.
C13_Witness ==
    /\ pc = "ended"
    /\ user_query = <<" ", "E", "x", "I", "T", " ">>
    /\ Len(history) = 4
    /\ history[3].text = <<>>
    /\ history[3].kind = "query"

\* C14 as claimed: when write_file(f, c) has returned, a read of f yields
\* exactly c, whatever f and c are and whatever f held before.
C14_AsClaimed ==
    [][(/\ pc = "for"
        /\ pc' = "observe"
        /\ tool_name' = Str(<<"write_file">>)
        /\ result'.env.kind = "write_ok")
       => LET parts == split1(tool_input'.s)
          IN  /\ strip(parts[1]) \in DOMAIN fs'
              /\ ReadText(fs'[strip(parts[1])]) = strip(parts[2])]_vars

\* C15: an output step reached by the for loop has its content surfaced and
\* ends the iteration of the query: the loop goes from that step to the prompt
\* with no later step of the batch processed, no tool invoked and nothing sent
\* to the model.
C15_OutputStopsIteration ==
    [][/\ (pc = "for" /\ steps[idx].step = output) =>
             /\ pc' = "check"
             /\ idx' = idx
             /\ printed'[Len(printed')] = Line("final", steps[idx].content, <<>>)
             /\ history' = history
             /\ invocations' = invocations
             /\ round_trips' = round_trips
             /\ fs' = fs
       /\ (pc = "check" /\ steps[idx].step = output) =>
             /\ pc' = "prompt"
             /\ idx' = idx
             /\ history' = history
             /\ invocations' = invocations
             /\ round_trips' = round_trips
             /\ fs' = fs]_vars

\* C15 witness: the loop is back at the prompt after a batch whose output
\* step came before an action step, and no tool was invoked.
C15_Witness ==
    /\ pc = "prompt"
    /\ Len(steps) = 2
    /\ idx = 1
    /\ steps[1].step = output
    /\ steps[2].step = action
    /\ invocations = 0
    /\ round_trips = 1

\* C16: processing a plan step or an observe step of the batch only
\* surfaces its content: nothing is sent to the model, no tool is invoked, the
\* conversation and the files stay as they are, and the for loop goes on with
\* the next step of the same batch when there is one.
C16_PlanAndObserveOnlySurface ==
    [][(pc = "for" /\ steps[idx].step \in {plan, observe}) =>
          /\ printed'[Len(printed')].val = steps[idx].content
          /\ printed'[Len(printed')].tag =
                (IF steps[idx].step = plan THEN "plan" ELSE "observation")
          /\ history' = history
          /\ fs' = fs
          /\ prompt' = prompt
          /\ invocations' = invocations
          /\ round_trips' = round_trips
          /\ steps' = steps
          /\ response' = response
          /\ IF idx < Len(steps) THEN pc' = "for" /\ idx' = idx + 1
             ELSE pc' = "check" /\ idx' = idx]_vars

\* C16 witness: an observe step emitted by the model was surfaced and the for
\* loop stands at the step after it, with nothing sent and no tool invoked.
C16_Witness ==
    /\ pc = "for"
    /\ idx = 2
    /\ steps[1].step = observe
    /\ printed # <<>>
    /\ printed[Len(printed)].tag = "observation"
    /\ printed[Len(printed)].val = steps[1].content
    /\ invocations = 0
    /\ round_trips = 1

\* where the first "||" of x starts
FirstDelimiter(x) ==
    CHOOSE i \in 1..(Len(x) - 1) :
       /\ x[i] = "|" /\ x[i + 1] = "|"
       /\ \A j \in 1..(i - 1) : ~(x[j] = "|" /\ x[j + 1] = "|")

\* x from its first to its last chunk that is not whitespace
Trim(x) ==
    LET keep == {i \in 1..Len(x) : x[i] \notin {" ", "\t", "\n", "\r"}}
    IN  IF keep = {} THEN <<>>
        ELSE SubSeq(x, CHOOSE i \in keep : \A j \in keep : i <= j,
                       CHOOSE i \in keep : \A j \in keep : j <= i)

\* C17: for write_file and edit_file with an input that contains "||", the
\* executor is called with the text before the first "||", trimmed, as the
\* filename and with everything after the first "||", trimmed, as its second
\* argument, any later "||" included as it is.
C17_SplitsOnFirstDelimiter ==
    [][(/\ pc = "for"
        /\ steps[idx].step = action
        /\ steps[idx].function \in {Str(<<"write_file">>), Str(<<"edit_file">>)}
        /\ steps[idx].input.ty = "str"
        /\ HasDelimiter(steps[idx].input.s))
       => LET x      == steps[idx].input.s
              i      == FirstDelimiter(x)
              first  == Trim(SubSeq(x, 1, i - 1))
              second == Trim(SubSeq(x, i + 2, Len(x)))
          IN  IF steps[idx].function = Str(<<"write_file">>)
              THEN /\ result' \in write_file(first, second, fs, prompt, <<>>, <<>>)
                   /\ result'.env.kind = "write_ok" =>
                         /\ fs'[first] = second
                         /\ tool_output' = <<"File ">> \o first \o <<" updated successfully.">>
              ELSE /\ result' \in edit_file_with_gemini(first, second, fs, prompt)
                   /\ "generate_content" \in Range(result'.calls) =>
                         /\ prompt'.filename = first
                         /\ prompt'.error_message = second]_vars

\* C17 witness: edit_file was given "||||" and its call to the model carried
\* the empty filename and the second "||" as the error message.
C17_Witness ==
    /\ tool_name = Str(<<"edit_file">>)
    /\ tool_input = Str(<<"|", "|", "|", "|">>)
    /\ "generate_content" \in Range(result.calls)
    /\ prompt.filename = <<>>
    /\ prompt.error_message = <<"|", "|">>

\* C18 as claimed: within a query the loop always makes progress: a reply is
\* extracted once, so whenever the loop is about to extract, the reply at hand
\* has not been extracted before.
C18_AsClaimed == pc = "extract" => ~extracted

\* C19 as claimed: the loop returns to the prompt only after something final
\* was surfaced for the query: the raw text of a reply from which no step was
\* extracted, or the content of an output step that the for loop reached.
C19_AsClaimed ==
    [][(pc # "prompt" /\ pc' = "prompt") =>
          \/ /\ pc = "extract"
             /\ steps' = <<>>
             /\ printed'[Len(printed')] = Line("raw", PyNone, response)
          \/ /\ pc = "check"
             /\ steps[idx].step = output]_vars

\* the place of a call in the record of calls, 0 when it was not made
CallIndex(calls, name) ==
    IF \E i \in 1..Len(calls) : calls[i] = name
    THEN CHOOSE i \in 1..Len(calls) : calls[i] = name
    ELSE 0

\* C20: edit_file reads a missing file as the empty text and goes on to the
\* model call; the file is written only after the model call has returned: a
\* failure of the model call propagates and leaves every file as it was, the
\* target neither created nor truncated; when edit_file returns, the target
\* holds exactly the trimmed text of the response and no other file changed.
C20_EditWritesAfterModelCall ==
    [][(/\ pc = "for"
        /\ steps[idx].step = action
        /\ steps[idx].function = Str(<<"edit_file">>)
        /\ result'.calls # <<>>)
       => LET x     == steps[idx].input.s
              fname == Trim(SubSeq(x, 1, FirstDelimiter(x) - 1))
              calls == result'.calls
          IN  /\ fname \notin DOMAIN fs =>
                    /\ CallIndex(calls, "generate_content") > 0
                    /\ prompt'.current_code = <<>>
              /\ result'.env.kind = "model_error" =>
                    /\ pc' = "crashed"
                    /\ result'.raised
                    /\ fs' = fs
              /\ CallIndex(calls, "write_file") > 0 =>
                    /\ CallIndex(calls, "generate_content") > 0
                    /\ CallIndex(calls, "generate_content") < CallIndex(calls, "write_file")
              /\ fs' # fs => CallIndex(calls, "write_file") > 0
              /\ pc' = "observe" =>
                    /\ DOMAIN fs' = DOMAIN fs \cup {fname}
                    /\ fs'[fname] = Trim(result'.env.body)
                    /\ \A q \in DOMAIN fs \ {fname} : fs'[q] = fs[q]]_vars

\* C20 witness: edit_file was asked to edit a file that does not exist, read
\* it as empty, the model call failed, and the file still does not exist.
C20_Witness ==
    /\ pc = "crashed"
    /\ tool_name = Str(<<"edit_file">>)
    /\ result.env.kind = "model_error"
    /\ prompt.filename = <<"f">>
    /\ prompt.current_code = <<>>
    /\ fs = NoFiles

=============================================================================
